---- MODULE Spec2Model ----
(***************************************************************************)
(* Model of the POST /process_image handler of src/app.py.                 *)
(*                                                                         *)
(* Texts are sequences of one-character strings, so that strip, the fence  *)
(* removal, the trailing-comma replace and json.loads act on characters.   *)
(* JSON values are tagged records (field t names the Python type).         *)
(***************************************************************************)
EXTENDS Integers, Sequences, FiniteSets, TLC

VARIABLES
    pc,                \* "start", "calling" (blocked in generate_content), "done"
    request,           \* the multipart request: [has_image, filename]
    calls,             \* calls of generate_content made for the request
    responses,         \* responses sent for the request
    replied,           \* the model call has returned a text
    response_text,     \* response.text as the model returned it
    extracted_text,    \* gemini_response_text after lines 96-111
    parsed_list,       \* medicine_details as the loop of line 133 receives it
    medicine_details,  \* medicine_details of the 200 body
    status,            \* HTTP status of the response, 0 before it
    error,             \* the error member of a 400 or 500 body, "" otherwise
    logged             \* the exception printed by line 159, "none" otherwise

vars == <<pc, request, calls, responses, replied, response_text, extracted_text,
          parsed_list, medicine_details, status, error, logged>>

(***************************************************************************)
(* Evaluation helper: F applied to the value of x, with x evaluated once.  *)
(***************************************************************************)
Let1(x, F(_)) == CHOOSE r \in { F(v) : v \in {x} } : TRUE

(***************************************************************************)
(* Python str methods used by the handler                                  *)
(***************************************************************************)

\* str.strip() whitespace, as far as the reply alphabet has it
IsSpace(c) == c \in {" ", "\n"}

\* index of the first character of s at or after i that satisfies Stop, Len(s) + 1 if none
FirstFrom(s, i, Stop(_)) ==
    Let1(s, LAMBDA v :
        CHOOSE k \in i..(Len(v) + 1) :
            /\ k = Len(v) + 1 \/ Stop(v[k])
            /\ \A j \in i..(k - 1) : ~Stop(v[j]))

\* index of the last character of s that is not whitespace, 0 if none
LastNonSpace(s) ==
    Let1(s, LAMBDA v :
        CHOOSE k \in 0..Len(v) :
            /\ k = 0 \/ ~IsSpace(v[k])
            /\ \A j \in (k + 1)..Len(v) : IsSpace(v[j]))

NotSpace(c) == ~IsSpace(c)

LStrip(s) == Let1(s, LAMBDA v : SubSeq(v, FirstFrom(v, 1, NotSpace), Len(v)))

RStrip(s) == Let1(s, LAMBDA v : SubSeq(v, 1, LastNonSpace(v)))

Strip(s) == RStrip(LStrip(s))

\* s.startswith(p)
StartsWith(s, p) == Let1(s, LAMBDA v : Len(v) >= Len(p) /\ SubSeq(v, 1, Len(p)) = p)

\* s.endswith(p)
EndsWith(s, p) ==
    Let1(s, LAMBDA v : Len(v) >= Len(p) /\ SubSeq(v, Len(v) - Len(p) + 1, Len(v)) = p)

\* s.find(old) + 1: the index of the first occurrence of old, 0 if none
Find(s, old) ==
    Let1(s, LAMBDA v :
        LET hit(k) == SubSeq(v, k, k + Len(old) - 1) = old
            last == Len(v) - Len(old) + 1
        IN IF \E k \in 1..last : hit(k)
           THEN CHOOSE k \in 1..last : hit(k) /\ \A j \in 1..(k - 1) : ~hit(j)
           ELSE 0)

\* s.replace(old, new): every non-overlapping occurrence, left to right
RECURSIVE Replace(_, _, _)
Replace(s, old, new) ==
    Let1(s, LAMBDA v :
        Let1(Find(v, old), LAMBDA k :
            IF k = 0 THEN v
            ELSE SubSeq(v, 1, k - 1) \o new
                 \o Replace(SubSeq(v, k + Len(old), Len(v)), old, new)))

\* s.replace(old, new, 1): the first occurrence only
ReplaceFirst(s, old, new) ==
    Let1(s, LAMBDA v :
        Let1(Find(v, old), LAMBDA k :
            IF k = 0 THEN v
            ELSE SubSeq(v, 1, k - 1) \o new \o SubSeq(v, k + Len(old), Len(v))))

\* the backquote character (a TLA+ string cannot hold it): one atom of the alphabet
BQ == "BACKQUOTE"
FenceOpen == <<BQ, BQ, BQ, "j", "s", "o", "n">>
FenceClose == <<BQ, BQ, BQ>>

\* lines 104-105
StripFenceOpen(t) ==
    Let1(t, LAMBDA v :
        IF StartsWith(v, FenceOpen) THEN Strip(ReplaceFirst(v, FenceOpen, <<>>)) ELSE v)

\* lines 106-107
StripFenceClose(t) ==
    Let1(t, LAMBDA v :
        IF EndsWith(v, FenceClose) THEN Strip(SubSeq(v, 1, Len(v) - 3)) ELSE v)

\* line 111
CommaCleanupMutBracketOnly(t) == Strip(Replace(t, <<",", "]">>, <<"]">>))
CommaCleanup(t) ==
    Strip(Replace(Replace(t, <<",", "]">>, <<"]">>), <<",", "}">>, <<"}">>))

\* lines 104-111: the text handed to json.loads, from the stripped reply
CleanText(t) == CommaCleanup(StripFenceClose(StripFenceOpen(t)))

(***************************************************************************)
(* JSON values                                                             *)
(***************************************************************************)
JNull == [t |-> "null"]
JBool(b) == [t |-> "bool", b |-> b]
JInt(n) == [t |-> "int", n |-> n]
\* a float is kept as its literal: sign, integer part, fraction digits
JFloat(neg, whole, frac) ==
    [t |-> "float", kind |-> "finite", neg |-> neg, whole |-> whole, frac |-> frac]
JInf(neg) == [t |-> "float", kind |-> "inf", neg |-> neg, whole |-> 0, frac |-> <<>>]
JNaN == [t |-> "float", kind |-> "nan", neg |-> FALSE, whole |-> 0, frac |-> <<>>]
JStr(s) == [t |-> "str", s |-> s]
JList(xs) == [t |-> "list", xs |-> xs]
JDict(d) == [t |-> "dict", d |-> d]
EmptyDict == [k \in {} |-> JNull]

(***************************************************************************)
(* json.loads: the decoder of the Python standard library, on the reply    *)
(* alphabet (no backslash escapes, no exponents).  A parse result is       *)
(* [ok, v, i]: success, the value, the index after it.                     *)
(***************************************************************************)
Fail == [ok |-> FALSE, v |-> JNull, i |-> 0]
Ok(v, i) == [ok |-> TRUE, v |-> v, i |-> i]

Digits == <<"0", "1", "2", "3", "4", "5", "6", "7", "8", "9">>
IsDigit(c) == \E k \in 1..10 : Digits[k] = c
DigitVal(c) == (CHOOSE k \in 1..10 : Digits[k] = c) - 1
NotDigit(c) == ~IsDigit(c)

\* index of the first character at or after i that is not whitespace
\* (WHITESPACE.match(s, i).end())
SkipWs(s, i) == Let1(i, LAMBDA j : IF j > Len(s) THEN j ELSE FirstFrom(s, j, NotSpace))

\* index after the run of digits starting at i
DigitsEnd(s, i) == Let1(i, LAMBDA j : IF j > Len(s) THEN j ELSE FirstFrom(s, j, NotDigit))

RECURSIVE DigitsValue(_)
DigitsValue(ds) ==
    Let1(ds, LAMBDA v :
        IF v = <<>> THEN 0
        ELSE 10 * DigitsValue(SubSeq(v, 1, Len(v) - 1)) + DigitVal(v[Len(v)]))

HasAt(s, i, w) ==
    Let1(i, LAMBDA j : j + Len(w) - 1 <= Len(s) /\ SubSeq(s, j, j + Len(w) - 1) = w)

\* NUMBER_RE: (-?(?:0|[1-9]\d*))(\.\d+)?
ParseNumber(s, i) ==
    Let1(HasAt(s, i, <<"-">>), LAMBDA neg :
    Let1(IF neg THEN i + 1 ELSE i, LAMBDA j :
        IF ~(j <= Len(s) /\ IsDigit(s[j])) THEN Fail
        ELSE Let1(IF s[j] = "0" THEN j + 1 ELSE DigitsEnd(s, j), LAMBDA e :
             Let1(IF HasAt(s, e, <<".">>) THEN DigitsEnd(s, e + 1) ELSE e, LAMBDA fe :
                 IF fe > e + 1
                 THEN Ok(JFloat(neg, DigitsValue(SubSeq(s, j, e - 1)),
                                SubSeq(s, e + 1, fe - 1)), fe)
                 ELSE Let1(DigitsValue(SubSeq(s, j, e - 1)), LAMBDA whole :
                          Ok(JInt(IF neg THEN 0 - whole ELSE whole), e))))))

StringStop(c) == c \in {"\"", "\n"}

\* index of the closing quote of the string whose body starts at i, 0 if none;
\* a raw newline inside a string is a control character and is rejected
StringEnd(s, i) ==
    Let1(IF i > Len(s) THEN i ELSE FirstFrom(s, i, StringStop), LAMBDA k :
        IF k > Len(s) \/ s[k] = "\n" THEN 0 ELSE k)

ParseString(s, i) ==
    IF ~HasAt(s, i, <<"\"">>) THEN Fail
    ELSE Let1(StringEnd(s, i + 1), LAMBDA e :
             IF e = 0 THEN Fail ELSE Ok(JStr(SubSeq(s, i + 1, e - 1)), e + 1))

RECURSIVE ParseValue(_, _)
RECURSIVE ParseElements(_, _, _)
RECURSIVE ParseMembers(_, _, _)

\* JSONArray after the first element: xs so far, i after the last element
ParseElements(s, i, xs) ==
    Let1(SkipWs(s, i), LAMBDA j :
        IF HasAt(s, j, <<"]">>) THEN Ok(JList(xs), j + 1)
        ELSE IF ~HasAt(s, j, <<",">>) THEN Fail
        ELSE Let1(ParseValue(s, SkipWs(s, j + 1)), LAMBDA r :
                 IF r.ok
                 THEN Let1(Append(xs, r.v), LAMBDA ys : ParseElements(s, r.i, ys))
                 ELSE Fail))

\* one "key" : value pair starting at i (at the opening quote)
ParseMember(s, i) ==
    Let1(ParseString(s, i), LAMBDA k :
        IF ~k.ok THEN Fail
        ELSE Let1(SkipWs(s, k.i), LAMBDA c :
                 IF ~HasAt(s, c, <<":">>) THEN Fail
                 ELSE Let1(ParseValue(s, SkipWs(s, c + 1)), LAMBDA r :
                          IF r.ok THEN Ok(<<k.v.s, r.v>>, r.i) ELSE Fail)))

\* JSONObject after the first pair: d so far, i after the last value
ParseMembers(s, i, d) ==
    Let1(SkipWs(s, i), LAMBDA j :
        IF HasAt(s, j, <<"}">>) THEN Ok(JDict(d), j + 1)
        ELSE IF ~HasAt(s, j, <<",">>) THEN Fail
        ELSE Let1(ParseMember(s, SkipWs(s, j + 1)), LAMBDA m :
                 IF m.ok
                 THEN Let1((m.v[1] :> m.v[2]) @@ d, LAMBDA e : ParseMembers(s, m.i, e))
                 ELSE Fail))

\* scanner.py _scan_once
ParseValue(s, i0) ==
    Let1(i0, LAMBDA i :
        IF i > Len(s) THEN Fail
        ELSE IF s[i] = "\"" THEN ParseString(s, i)
        ELSE IF s[i] = "{" THEN
            Let1(SkipWs(s, i + 1), LAMBDA j :
                IF HasAt(s, j, <<"}">>) THEN Ok(JDict(EmptyDict), j + 1)
                ELSE Let1(ParseMember(s, j), LAMBDA m :
                         IF m.ok THEN ParseMembers(s, m.i, m.v[1] :> m.v[2]) ELSE Fail))
        ELSE IF s[i] = "[" THEN
            Let1(SkipWs(s, i + 1), LAMBDA j :
                IF HasAt(s, j, <<"]">>) THEN Ok(JList(<<>>), j + 1)
                ELSE Let1(ParseValue(s, j), LAMBDA r :
                         IF r.ok THEN ParseElements(s, r.i, <<r.v>>) ELSE Fail))
        ELSE IF HasAt(s, i, <<"n", "u", "l", "l">>) THEN Ok(JNull, i + 4)
        ELSE IF HasAt(s, i, <<"t", "r", "u", "e">>) THEN Ok(JBool(TRUE), i + 4)
        ELSE IF HasAt(s, i, <<"f", "a", "l", "s", "e">>) THEN Ok(JBool(FALSE), i + 5)
        ELSE Let1(ParseNumber(s, i), LAMBDA num :
            IF num.ok THEN num
            ELSE IF HasAt(s, i, <<"N", "a", "N">>) THEN Ok(JNaN, i + 3)
            ELSE IF HasAt(s, i, <<"I", "n", "f", "i", "n", "i", "t", "y">>)
                 THEN Ok(JInf(FALSE), i + 8)
            ELSE IF HasAt(s, i, <<"-", "I", "n", "f", "i", "n", "i", "t", "y">>)
                 THEN Ok(JInf(TRUE), i + 9)
            ELSE Fail))

\* json.loads(text): [ok, v]; ok = FALSE is json.JSONDecodeError
\* (decoder.py decode: value, then only whitespace up to the end)
JsonLoads(text) ==
    Let1(text, LAMBDA s :
        Let1(ParseValue(s, SkipWs(s, 1)), LAMBDA r :
            IF r.ok /\ SkipWs(s, r.i) = Len(s) + 1
            THEN [ok |-> TRUE, v |-> r.v]
            ELSE [ok |-> FALSE, v |-> JNull]))

(***************************************************************************)
(* Python semantics used by the normalization loop                         *)
(***************************************************************************)

\* bool(v), as `or` tests it
Truthy(v) ==
    CASE v.t = "null" -> FALSE
      [] v.t = "bool" -> v.b
      [] v.t = "int" -> v.n # 0
      [] v.t = "float" -> v.kind # "finite" \/ v.whole # 0 \/ DigitsValue(v.frac) # 0
      [] v.t = "str" -> v.s # <<>>
      [] v.t = "list" -> v.xs # <<>>
      [] v.t = "dict" -> DOMAIN v.d # {}

Raise(e) == [exc |-> e, n |-> 0]
Return(n) == [exc |-> "none", n |-> n]

\* int(str): surrounding whitespace, an optional sign, then digits only
IntOfStr(s) ==
    LET b == Strip(s)
        signed == b # <<>> /\ Head(b) \in {"-", "+"}
        ds == IF signed THEN Tail(b) ELSE b
    IN IF ds # <<>> /\ DigitsEnd(ds, 1) = Len(ds) + 1
       THEN Return(IF signed /\ Head(b) = "-" THEN 0 - DigitsValue(ds)
                   ELSE DigitsValue(ds))
       ELSE Raise("ValueError")

\* int(v): [exc, n]
PyIntMutOffByOne(v) ==
    CASE v.t = "int" -> Return(v.n + 1)
      [] v.t = "bool" -> Return(IF v.b THEN 1 ELSE 0)
      [] v.t = "float" ->
            IF v.kind = "inf" THEN Raise("OverflowError")
            ELSE IF v.kind = "nan" THEN Raise("ValueError")
            ELSE Return(IF v.neg THEN 0 - v.whole ELSE v.whole)
      [] v.t = "str" -> IntOfStr(v.s)
      [] OTHER -> Raise("TypeError")
PyInt(v) ==
    CASE v.t = "int" -> Return(v.n)
      [] v.t = "bool" -> Return(IF v.b THEN 1 ELSE 0)
      [] v.t = "float" ->
            IF v.kind = "inf" THEN Raise("OverflowError")
            ELSE IF v.kind = "nan" THEN Raise("ValueError")
            ELSE Return(IF v.neg THEN 0 - v.whole ELSE v.whole)
      [] v.t = "str" -> IntOfStr(v.s)
      [] OTHER -> Raise("TypeError")

\* dict.get(key, default)
Get(d, key, default) == IF key \in DOMAIN d THEN d[key] ELSE default

\* item.get(key, default) or default
GetOr(d, key, default) ==
    LET v == Get(d, key, default) IN IF Truthy(v) THEN v ELSE default

KName == <<"n", "a", "m", "e">>
KQuantity == <<"q", "u", "a", "n", "t", "i", "t", "y">>
KDuration == <<"d", "u", "r", "a", "t", "i", "o", "n">>
KMeal == <<"m", "e", "a", "l">>
KFrequency == <<"f", "r", "e", "q", "u", "e", "n", "c", "y">>
Keys == {KName, KQuantity, KDuration, KMeal, KFrequency}
StrKeys == Keys \ {KDuration}

Anytime == JStr(<<"a", "n", "y", "t", "i", "m", "e">>)
EmptyStr == JStr(<<>>)
DefaultDuration == -1

\* lines 135-138: the value stored under duration, or the exception that
\* leaves the loop (only ValueError and TypeError are caught)
NormDuration(d) ==
    LET r == PyInt(Get(d, KDuration, JInt(DefaultDuration)))
    IN IF r.exc \in {"ValueError", "TypeError"} THEN Return(DefaultDuration) ELSE r

\* line 141
NormMealMutNoOr(d) == Get(d, KMeal, Anytime)
NormMeal(d) == GetOr(d, KMeal, Anytime)

\* lines 144, 147, 150
NormStr(d, key) == GetOr(d, key, EmptyStr)

\* lines 133-150, one pass of the loop body on one element: [exc, v]
NormalizeItem(item) ==
    IF item.t # "dict" THEN [exc |-> "AttributeError", v |-> item]
    ELSE Let1(NormDuration(item.d), LAMBDA du :
            IF du.exc # "none" THEN [exc |-> du.exc, v |-> item]
            ELSE [exc |-> "none",
                  v |-> JDict((KDuration :> JInt(du.n))
                              @@ (KMeal :> NormMeal(item.d))
                              @@ (KFrequency :> NormStr(item.d, KFrequency))
                              @@ (KQuantity :> NormStr(item.d, KQuantity))
                              @@ (KName :> NormStr(item.d, KName))
                              @@ item.d)])

\* lines 133-150, the loop: [exc, xs]; the first exception ends it
RECURSIVE Normalize(_)
Normalize(xs) ==
    Let1(xs, LAMBDA ys :
        IF ys = <<>> THEN [exc |-> "none", xs |-> <<>>]
        ELSE Let1(NormalizeItem(Head(ys)), LAMBDA h :
                 IF h.exc # "none" THEN [exc |-> h.exc, xs |-> <<>>]
                 ELSE Let1(Normalize(Tail(ys)), LAMBDA r :
                          IF r.exc # "none" THEN r
                          ELSE [exc |-> "none", xs |-> <<h.v>> \o r.xs])))

\* lines 100-127: the list handed to the loop
ParsedListMutNoWrap(text) ==
    Let1(JsonLoads(text), LAMBDA r :
        IF r.ok /\ r.v.t = "list" THEN r.v.xs ELSE <<>>)
ParsedList(text) ==
    Let1(JsonLoads(text), LAMBDA r :
        IF ~r.ok THEN <<>>
        ELSE IF r.v.t = "list" THEN r.v.xs
        ELSE IF r.v.t = "dict" THEN <<r.v>>
        ELSE <<>>)

(***************************************************************************)
(* The replies of the external model: response.text of line 96 is any      *)
(* text.  The replies explored are the serializations of a bounded set of  *)
(* JSON values, plain, with trailing commas, inside code fences and with   *)
(* surrounding whitespace, and a set of texts that are not JSON.           *)
(***************************************************************************)
MaxKeys == 1     \* keys per generated object (the samples below have more)
MaxItems == 2    \* elements per generated array

RECURSIVE NatDigits(_)
NatDigits(n) ==
    IF n < 10 THEN <<Digits[n + 1]>> ELSE NatDigits(n \div 10) \o <<Digits[(n % 10) + 1]>>

KeyOrder == <<KName, KQuantity, KDuration, KMeal, KFrequency>>

RECURSIVE Dumps(_, _, _)
RECURSIVE DumpsItems(_, _)
RECURSIVE DumpsPairs(_, _, _)

\* the elements of xs, comma separated
DumpsItems(xs, tc) ==
    IF xs = <<>> THEN <<>>
    ELSE Dumps(Head(xs), tc, tc)
         \o (IF Len(xs) > 1 THEN <<",">> ELSE <<>>) \o DumpsItems(Tail(xs), tc)

\* the pairs of d for the keys KeyOrder[k..], comma separated
DumpsPairs(d, k, tc) ==
    IF k > Len(KeyOrder) THEN <<>>
    ELSE IF KeyOrder[k] \notin DOMAIN d THEN DumpsPairs(d, k + 1, tc)
    ELSE <<"\"">> \o KeyOrder[k] \o <<"\"", ":">> \o Dumps(d[KeyOrder[k]], tc, tc)
         \o (IF \E j \in (k + 1)..Len(KeyOrder) : KeyOrder[j] \in DOMAIN d
             THEN <<",">> ELSE <<>>)
         \o DumpsPairs(d, k + 1, tc)

\* the JSON text of v; outer (inner) is written before the closer of v (of
\* the containers inside v) when the container is not empty: <<>> gives
\* valid JSON, <<",">> a trailing comma
Dumps(v, outer, inner) ==
    CASE v.t = "null" -> <<"n", "u", "l", "l">>
      [] v.t = "bool" -> IF v.b THEN <<"t", "r", "u", "e">> ELSE <<"f", "a", "l", "s", "e">>
      [] v.t = "int" -> IF v.n < 0 THEN <<"-">> \o NatDigits(0 - v.n) ELSE NatDigits(v.n)
      [] v.t = "float" ->
            IF v.kind = "nan" THEN <<"N", "a", "N">>
            ELSE IF v.kind = "inf"
                 THEN (IF v.neg THEN <<"-">> ELSE <<>>)
                      \o <<"I", "n", "f", "i", "n", "i", "t", "y">>
            ELSE (IF v.neg THEN <<"-">> ELSE <<>>) \o NatDigits(v.whole) \o <<".">> \o v.frac
      [] v.t = "str" -> <<"\"">> \o v.s \o <<"\"">>
      [] v.t = "list" ->
            <<"[">> \o DumpsItems(v.xs, inner)
            \o (IF v.xs # <<>> THEN outer ELSE <<>>) \o <<"]">>
      [] v.t = "dict" ->
            <<"{">> \o DumpsPairs(v.d, 1, inner)
            \o (IF DOMAIN v.d # {} THEN outer ELSE <<>>) \o <<"}">>

\* values tried under "duration"
DurationVals ==
    { JNull, JBool(TRUE), JInt(0), JInt(7), JFloat(FALSE, 7, <<"9">>), JInf(FALSE), JNaN,
      JStr(<<"7">>), JStr(<<" ", "7">>), JStr(<<"-", "3">>), JStr(<<"7", ".", "5">>),
      JStr(<<>>), JStr(<<"x">>), JList(<<>>) }

\* values tried under "name", "quantity", "meal" and "frequency"
StrVals ==
    { JNull, JBool(FALSE), JInt(0), JInt(5), JFloat(FALSE, 0, <<"0">>),
      JStr(<<>>), JStr(<<"X">>), JStr(<<"a", ",", "]">>), JStr(<<"b", ",", "}">>),
      JList(<<>>), JList(<<JInt(1)>>), JDict(EmptyDict) }

ValsFor(k) == IF k = KDuration THEN DurationVals ELSE StrVals

\* the objects with at most MaxKeys of the five keys
Objs ==
    { JDict(f) : f \in UNION { { g \in [S -> DurationVals \cup StrVals] :
                                     \A k \in S : g[k] \in ValsFor(k) } :
                               S \in { T \in SUBSET Keys : Cardinality(T) <= MaxKeys } } }

\* the two examples of the specification (with shorter strings)
SampleFull ==
    JDict((KName :> JStr(<<"P">>)) @@ (KQuantity :> JStr(<<"5", "m", "g">>))
          @@ (KDuration :> JStr(<<"7">>)) @@ (KMeal :> JStr(<<"a", "m">>))
          @@ (KFrequency :> JStr(<<"2", "x">>)))
SampleNameOnly == JDict(KName :> JStr(<<"X">>))
SampleTricky == JDict((KName :> JStr(<<"a", ",", "]">>)) @@ (KDuration :> JInt(3)))

SampleItems == {SampleFull, SampleNameOnly, SampleTricky, JInt(1)}
Items == Objs \cup SampleItems \cup {JNull, JStr(<<"X">>), JList(<<>>)}

Lists ==
    { JList(xs) : xs \in {<<>>} \cup { <<x>> : x \in Items }
                         \cup UNION { [1..n -> SampleItems] : n \in 2..MaxItems } }

Scalars == {JNull, JBool(TRUE), JInt(7), JFloat(TRUE, 1, <<"5">>), JNaN, JStr(<<"X">>)}

Values == Scalars \cup Objs \cup {SampleFull, SampleTricky} \cup Lists

\* the values also sent fenced and with trailing commas
CoreValues ==
    { JInt(7), SampleFull, SampleTricky, JList(<<>>), JList(<<SampleNameOnly>>),
      JList(<<SampleFull, SampleNameOnly>>), JList(<<SampleTricky>>), JList(<<SampleNameOnly, JInt(1)>>),
      JList(<<JDict(KMeal :> JStr(<<"b", ",", "}">>))>>),
      JList(<<JDict(KDuration :> JInf(FALSE))>>) }

\* <<text before the closer of the value, text before the inner closers>>
CommaStyles ==
    { <<<<>>, <<>>>>, <<<<",">>, <<>>>>, <<<<>>, <<",">>>>, <<<<",">>, <<",">>>>,
      <<<<",", " ">>, <<>>>>, <<<<>>, <<",", "\n">>>> }

\* <<text before the JSON, text after it>>
Wrappers ==
    { <<<<>>, <<>>>>,
      <<FenceOpen \o <<"\n">>, <<"\n">> \o FenceClose>>,
      <<FenceOpen, FenceClose>>,
      <<<<" ">> \o FenceOpen \o <<"\n">>, <<"\n">> \o FenceClose \o <<"\n">>>>,
      <<FenceOpen \o <<"\n">>, <<>>>>,
      <<<<>>, <<"\n">> \o FenceClose>>,
      <<<<"\n">>, <<" ">>>> }

NotJson ==
    { <<>>, <<"a", "b">>, <<"[">>, <<"[", "1", ",", ",", "]">>, <<"{", "}", "x">>,
      <<"-">>, <<"7", ".">>, <<"0", "1">>, <<"[", "1", "]", "]">>,
      <<"{", "\"", "n", "\"", "}">>, <<"{", "1", ":", "2", "}">>,
      FenceOpen, FenceClose, FenceOpen \o FenceClose, <<"\"", "a">>,
      <<"N", "o", " ", "m", "e", "d", "s">> }

Replies ==
    { Dumps(v, <<>>, <<>>) : v \in Values }
    \cup { w[1] \o Dumps(v, c[1], c[2]) \o w[2] :
             v \in CoreValues, c \in CommaStyles, w \in Wrappers }
    \cup NotJson

(***************************************************************************)
(* The handler of POST /process_image                                      *)
(***************************************************************************)
NoImageMsg == "No image file provided"
NoFilenameMsg == "No selected image file"
InternalErrorMsg == "An internal server error occurred during image processing."

\* the multipart requests: the image field may be absent, its filename empty
Requests ==
    { [has_image |-> FALSE, filename |-> ""],
      [has_image |-> TRUE, filename |-> ""],
      [has_image |-> TRUE, filename |-> "rx.png"],
      [has_image |-> TRUE, filename |-> "scan.jpg"] }

\* what a step before the model call (lines 37-90) and the call itself
\* (lines 93-96) can raise
EarlyFailures == {"none", "OSError"}
CallFailures == {"ConnectionError", "PermissionDenied", "ValueError"}

Init ==
    /\ pc = "start"
    /\ request = [has_image |-> FALSE, filename |-> ""]
    /\ calls = 0
    /\ responses = 0
    /\ replied = FALSE
    /\ response_text = <<>>
    /\ extracted_text = <<>>
    /\ parsed_list = <<>>
    /\ medicine_details = <<>>
    /\ status = 0
    /\ error = ""
    /\ logged = "none"

\* return jsonify({'error': msg}), code
Respond(code, msg, exc) ==
    /\ pc' = "done"
    /\ responses' = responses + 1
    /\ status' = code
    /\ error' = msg
    /\ logged' = exc

\* lines 28-33: the validation result, "" when the request passes
ValidateMutNoFilenameCheck(req) == IF ~req.has_image THEN NoImageMsg ELSE ""
Validate(req) ==
    IF ~req.has_image THEN NoImageMsg
    ELSE IF req.filename = "" THEN NoFilenameMsg
    ELSE ""

\* the body of a failure response for the exception exc (line 161)
FailureBodyMutLeak(exc) == exc
FailureBody(exc) == InternalErrorMsg

\* lines 27-93: a request arrives, is validated and, if valid, the model is
\* called (the handler then blocks in generate_content)
Request(req, early) ==
    /\ pc = "start"
    /\ request' = req
    /\ UNCHANGED <<replied, response_text, extracted_text, parsed_list, medicine_details>>
    /\ IF Validate(req) # ""
       THEN Respond(400, Validate(req), "none") /\ UNCHANGED calls
       ELSE IF early # "none"
       THEN Respond(500, FailureBody(early), early) /\ UNCHANGED calls
       ELSE /\ pc' = "calling"
            /\ calls' = calls + 1
            /\ UNCHANGED <<responses, status, error, logged>>

\* lines 93-161: the call returns text; the rest of the handler runs
ModelReturns(text) ==
    /\ pc = "calling"
    /\ replied' = TRUE
    /\ response_text' = text
    /\ \E clean \in {CleanText(Strip(text))} :
       \E lst \in {ParsedList(clean)} :
       \E norm \in {Normalize(lst)} :
          /\ extracted_text' = clean
          /\ parsed_list' = lst
          /\ IF norm.exc = "none"
             THEN /\ medicine_details' = norm.xs
                  /\ Respond(200, "", "none")
             ELSE /\ medicine_details' = <<>>
                  /\ Respond(500, FailureBody(norm.exc), norm.exc)
    /\ UNCHANGED <<request, calls>>

\* lines 93-96, 158-161: the call (or reading response.text) raises
ModelRaisesMutRetry(exc) ==
    /\ pc = "calling"
    /\ calls < 3
    /\ calls' = calls + 1
    /\ logged' = exc
    /\ UNCHANGED <<pc, request, responses, replied, response_text, extracted_text,
                   parsed_list, medicine_details, status, error>>
ModelRaises(exc) ==
    /\ pc = "calling"
    /\ Respond(500, FailureBody(exc), exc)
    /\ UNCHANGED <<request, calls, replied, response_text, extracted_text, parsed_list,
                   medicine_details>>

RequestStep == \E req \in Requests, early \in EarlyFailures : Request(req, early)
ModelReturnsStep == \E text \in Replies : ModelReturns(text)
ModelRaisesStep == \E exc \in CallFailures : ModelRaises(exc)

Next == RequestStep \/ ModelReturnsStep \/ ModelRaisesStep

Spec == Init /\ [][Next]_vars

\* the handler runs on; the external call eventually returns or raises
LiveSpec == Spec /\ WF_vars(RequestStep) /\ WF_vars(ModelReturnsStep \/ ModelRaisesStep)

(***************************************************************************)
(* Vocabulary of the claims                                                *)
(***************************************************************************)

\* a MedicineEntry: the five keys, duration an integer, the others strings
IsMedicineEntry(v) ==
    /\ v.t = "dict"
    /\ Keys \subseteq DOMAIN v.d
    /\ v.d[KDuration].t = "int"
    /\ \A k \in StrKeys : v.d[k].t = "str"

\* the list a JSON value stands for: an array's elements, a single object
\* wrapped, nothing otherwise
ListOf(v) ==
    IF v.t = "list" THEN v.xs ELSE IF v.t = "dict" THEN <<v>> ELSE <<>>

\* t is ```json ... ```
Fenced(t) ==
    /\ Len(t) >= Len(FenceOpen) + Len(FenceClose)
    /\ StartsWith(t, FenceOpen)
    /\ EndsWith(t, FenceClose)
FenceInner(t) == SubSeq(t, Len(FenceOpen) + 1, Len(t) - Len(FenceClose))

Closers == {"]", "}"}

\* the commas of t followed, after optional whitespace, by a closer
TrailingCommas(t) ==
    { k \in 1..Len(t) : /\ t[k] = ","
                        /\ SkipWs(t, k + 1) <= Len(t)
                        /\ t[SkipWs(t, k + 1)] \in Closers }

\* the commas of t immediately followed by a closer
AdjacentCommas(t) == { k \in 1..(Len(t) - 1) : t[k] = "," /\ t[k + 1] \in Closers }

\* t without the characters at the positions K
RECURSIVE RemoveAt(_, _)
RemoveAt(t, K) ==
    IF K = {} THEN t
    ELSE LET k == CHOOSE x \in K : \A y \in K : x >= y
         IN RemoveAt(SubSeq(t, 1, k - 1) \o SubSeq(t, k + 1, Len(t)), K \ {k})

\* the reply after strip and fence removal, before the comma cleanup
Unfenced(t) == StripFenceClose(StripFenceOpen(Strip(t)))

\* the values Python treats as false
Falsy(v) ==
    \/ v.t = "null"
    \/ v.t = "bool" /\ ~v.b
    \/ v.t = "int" /\ v.n = 0
    \/ v.t = "float" /\ v.kind = "finite" /\ v.whole = 0 /\ DigitsValue(v.frac) = 0
    \/ v.t = "str" /\ Len(v.s) = 0
    \/ v.t = "list" /\ Len(v.xs) = 0
    \/ v.t = "dict" /\ DOMAIN v.d = {}

\* the duration of the output for the input object d: the integer the input
\* converts to, -1 when absent or not convertible
DurationOf(d) ==
    IF KDuration \notin DOMAIN d THEN -1
    ELSE IF PyInt(d[KDuration]).exc = "none" THEN PyInt(d[KDuration]).n ELSE -1

Indices == 1..Len(medicine_details)

(***************************************************************************)
(* Claims                                                                  *)
(***************************************************************************)

\* C1: in every 200 response every element of medicine_details has the five
\* keys, duration an integer and name, quantity, meal, frequency strings.
C1_EveryEntryTyped ==
    status = 200 => \A i \in Indices : IsMedicineEntry(medicine_details[i])

\* C2: once the model call has returned a text, the response is never an
\* error response: the status is 200 whatever the text.
C2_ReplyNeverAnError == (replied /\ pc = "done") => status = 200

\* C3: the list handed to normalization is the JSON value of the cleaned
\* text: an array's elements, a single object wrapped, and the empty list
\* for anything else, where the response is 200 with medicine_details = [].
C3_ParsedListFromJson ==
    replied =>
        LET r == JsonLoads(extracted_text)
        IN /\ (r.ok /\ r.v.t = "list") => parsed_list = r.v.xs
           /\ (r.ok /\ r.v.t = "dict") => parsed_list = <<r.v>>
           /\ (~r.ok \/ r.v.t \notin {"list", "dict"}) =>
                  /\ parsed_list = <<>>
                  /\ status = 200
                  /\ medicine_details = <<>>

\* C3 witness: a reply that is a JSON number fell back to the empty list
C3_Witness ==
    /\ replied
    /\ JsonLoads(extracted_text).ok
    /\ JsonLoads(extracted_text).v.t = "int"
    /\ status = 200
    /\ medicine_details = <<>>

\* C4: a request without the image field gets 400 "No image file provided",
\* one with an empty filename 400 "No selected image file", and in both
\* cases the model is never called.
C4_ValidationErrors ==
    pc # "start" =>
        /\ ~request.has_image =>
               status = 400 /\ error = NoImageMsg /\ calls = 0 /\ pc = "done"
        /\ (request.has_image /\ request.filename = "") =>
               status = 400 /\ error = NoFilenameMsg /\ calls = 0 /\ pc = "done"

\* C4 witness: a request with an empty filename was answered
C4_Witness ==
    /\ pc = "done"
    /\ request.has_image
    /\ request.filename = ""
    /\ status = 400

\* C5: for a reply ```json inner ``` with inner valid JSON, the fences are
\* removed, parsing succeeds and medicine_details is the normalization of
\* the JSON value of inner (where that normalization completes).
C5_FencedReplyParsed ==
    replied =>
        LET t == Strip(response_text)
        IN (Fenced(t) /\ JsonLoads(FenceInner(t)).ok) =>
               LET want == Normalize(ListOf(JsonLoads(FenceInner(t)).v))
               IN /\ JsonLoads(extracted_text).ok
                  /\ want.exc = "none" => (status = 200 /\ medicine_details = want.xs)

\* C6 as stated: a reply that is valid JSON except for one trailing comma
\* before a closing ] or } parses after the cleanup.
C6_TrailingCommaRemoved ==
    replied =>
        LET t == Unfenced(response_text)
        IN (/\ ~JsonLoads(t).ok
            /\ \E k \in TrailingCommas(t) : JsonLoads(RemoveAt(t, {k})).ok)
           => JsonLoads(extracted_text).ok

\* C6 amended: a reply that is valid JSON except for commas written
\* immediately before a closing ] or } is parsed as the text without those
\* commas, and that text's entries are handed to normalization.
C6_AdjacentCommaRemoved ==
    replied =>
        LET t == Unfenced(response_text)
            fixed == RemoveAt(t, AdjacentCommas(t))
        IN (~JsonLoads(t).ok /\ JsonLoads(fixed).ok) =>
               /\ extracted_text = fixed
               /\ parsed_list = ListOf(JsonLoads(fixed).v)
               /\ status = 200 => medicine_details = Normalize(parsed_list).xs

\* C6 witness: a reply with a trailing comma yielded entries
C6_Witness ==
    /\ replied
    /\ ~JsonLoads(Unfenced(response_text)).ok
    /\ JsonLoads(RemoveAt(Unfenced(response_text),
                          AdjacentCommas(Unfenced(response_text)))).ok
    /\ status = 200
    /\ medicine_details # <<>>

\* C7 as stated: per object, duration is the integer the input converts to
\* or -1; meal is the input or "anytime" when absent, null or empty; the
\* other three are the input unchanged, or "" when absent or null.
C7_FieldsAsStated ==
    status = 200 =>
        \A i \in Indices :
            LET in == parsed_list[i].d
                out == medicine_details[i].d
            IN /\ out[KDuration] = JInt(DurationOf(in))
               /\ out[KMeal] =
                      IF \/ KMeal \notin DOMAIN in
                         \/ in[KMeal].t = "null"
                         \/ (in[KMeal].t = "str" /\ Len(in[KMeal].s) = 0)
                      THEN Anytime ELSE in[KMeal]
               /\ \A k \in StrKeys \ {KMeal} :
                      out[k] = IF k \notin DOMAIN in \/ in[k].t = "null"
                               THEN EmptyStr ELSE in[k]

\* C7 amended: as C7, with the defaults taken whenever the input is absent
\* or false in Python's sense (null, "", 0, 0.0, false, [], {}).
C7_FieldsOrDefaults ==
    status = 200 =>
        \A i \in Indices :
            LET in == parsed_list[i].d
                out == medicine_details[i].d
            IN /\ DOMAIN out = DOMAIN in \cup Keys
               /\ out[KDuration] = JInt(DurationOf(in))
               /\ out[KMeal] =
                      IF KMeal \notin DOMAIN in \/ Falsy(in[KMeal])
                      THEN Anytime ELSE in[KMeal]
               /\ \A k \in StrKeys \ {KMeal} :
                      out[k] = IF k \notin DOMAIN in \/ Falsy(in[k])
                               THEN EmptyStr ELSE in[k]

\* C7 witness: a value that is false but neither null nor a string was
\* replaced by its default
C7_Witness ==
    /\ status = 200
    /\ \E i \in Indices : \E k \in StrKeys :
           /\ k \in DOMAIN parsed_list[i].d
           /\ parsed_list[i].d[k].t \in {"bool", "int", "float", "list", "dict"}
           /\ medicine_details[i].d[k].t = "str"

\* C8: normalizing a normalized list again yields the same list.
C8_NormalizeIdempotent ==
    status = 200 => Normalize(medicine_details) = [exc |-> "none", xs |-> medicine_details]

\* C8 witness: a list that the first normalization changed
C8_Witness ==
    /\ status = 200
    /\ medicine_details # <<>>
    /\ medicine_details # parsed_list

\* C9: after validation, an exception of the model call or of a later step
\* gives status 500 with the one generic body, whatever the exception.
C9_GenericInternalError ==
    /\ (logged # "none" /\ pc = "done") => status = 500
    /\ status = 500 =>
           /\ error = InternalErrorMsg
           /\ logged # "none"
           /\ Validate(request) = ""

\* C9 witness: the model call raised
C9_Witness ==
    /\ status = 500
    /\ ~replied
    /\ calls = 1
    /\ logged = "ConnectionError"

\* C10: every request ends with exactly one response of status 200, 400 or
\* 500 once the model call returns or raises; the model is called at most
\* once, only after validation, never again while the call is pending, and
\* a pending call leaves the request without a response.
C10_Lifecycle ==
    /\ <>(pc = "done")
    /\ [](pc = "done" => (responses = 1 /\ status \in {200, 400, 500}))
    /\ [](pc # "done" => (responses = 0 /\ status = 0))
    /\ [](calls <= 1 /\ (calls = 1 => Validate(request) = ""))
    /\ [][pc = "calling" => calls' = calls]_vars

\* C10 witness: a request went through the model call and was answered
C10_Witness ==
    /\ pc = "done"
    /\ calls = 1
    /\ responses = 1
    /\ status = 200

====
